---- MODULE Spec2Model ----
(***************************************************************************)
(* A model of distributions/validate-modern.py: the validator of WSL       *)
(* distribution archives.  Python strings are TLA+ strings (Len, \o and    *)
(* SubSeq act on them as on sequences of characters), so the path and      *)
(* text manipulation of the script is modelled by what it does.  Every     *)
(* function of the script is an operator that returns its return value,    *)
(* the findings it printed and the exception it raised, if any; the        *)
(* actions apply them to inputs drawn from bounded sets.                   *)
(***************************************************************************)
EXTENDS Integers, Sequences, FiniteSets, TLC

(***************************************************************************)
(* Python's str methods.                                                   *)
(***************************************************************************)

\* s[n:] for 0 <= n
SliceFrom(s, n) == IF n >= Len(s) THEN "" ELSE SubSeq(s, n + 1, Len(s))

\* s[:n] for 0 <= n
SliceTo(s, n) == IF n >= Len(s) THEN s ELSE SubSeq(s, 1, n)

\* s.startswith(p)
StartsWith(s, p) == Len(s) >= Len(p) /\ SubSeq(s, 1, Len(p)) = p

\* s.endswith(p)
EndsWith(s, p) == Len(s) >= Len(p) /\ SubSeq(s, Len(s) - Len(p) + 1, Len(s)) = p

\* s[i] for the 1-based position i, as a string of one character
CharAt(s, i) == SubSeq(s, i, i)

\* s.rfind(c) + 1 for a character c: the 1-based position of the last c, 0 if none
RECURSIVE RFindFrom(_, _, _)
RFindFrom(s, c, i) ==
    IF i = 0 THEN 0
    ELSE IF CharAt(s, i) = c THEN i ELSE RFindFrom(s, c, i - 1)

RFind(s, c) == RFindFrom(s, c, Len(s))

\* s.find(c) + 1 for a character c: the 1-based position of the first c, 0 if none
RECURSIVE FindFrom(_, _, _)
FindFrom(s, c, i) ==
    IF i > Len(s) THEN 0
    ELSE IF CharAt(s, i) = c THEN i ELSE FindFrom(s, c, i + 1)

Find(s, c) == FindFrom(s, c, 1)

\* s.rstrip(c) for a character c
RECURSIVE RStrip(_, _)
RStrip(s, c) ==
    IF Len(s) > 0 /\ CharAt(s, Len(s)) = c THEN RStrip(SubSeq(s, 1, Len(s) - 1), c) ELSE s

\* s.strip(): blanks removed at both ends
RECURSIVE LStripBlank(_)
LStripBlank(s) ==
    IF Len(s) > 0 /\ CharAt(s, 1) = " " THEN LStripBlank(SliceFrom(s, 1)) ELSE s

Strip(s) == LStripBlank(RStrip(s, " "))

\* s.split(c) for a character c
RECURSIVE Split(_, _)
Split(s, c) ==
    LET i == Find(s, c)
    IN IF i = 0 THEN <<s>> ELSE <<SliceTo(s, i - 1)>> \o Split(SliceFrom(s, i), c)

\* c.join(parts)
RECURSIVE Join(_, _)
Join(parts, c) ==
    IF Len(parts) = 0 THEN ""
    ELSE IF Len(parts) = 1 THEN parts[1]
    ELSE parts[1] \o c \o Join(Tail(parts), c)

\* s.lower(), on the ASCII letters
LowerChar(c) ==
    CASE c = "A" -> "a" [] c = "B" -> "b" [] c = "C" -> "c" [] c = "D" -> "d"
      [] c = "E" -> "e" [] c = "F" -> "f" [] c = "G" -> "g" [] c = "H" -> "h"
      [] c = "I" -> "i" [] c = "J" -> "j" [] c = "K" -> "k" [] c = "L" -> "l"
      [] c = "M" -> "m" [] c = "N" -> "n" [] c = "O" -> "o" [] c = "P" -> "p"
      [] c = "Q" -> "q" [] c = "R" -> "r" [] c = "S" -> "s" [] c = "T" -> "t"
      [] c = "U" -> "u" [] c = "V" -> "v" [] c = "W" -> "w" [] c = "X" -> "x"
      [] c = "Y" -> "y" [] c = "Z" -> "z" [] OTHER -> c

RECURSIVE Lower(_)
Lower(s) == IF Len(s) = 0 THEN "" ELSE LowerChar(CharAt(s, 1)) \o Lower(SliceFrom(s, 1))

\* the elements of a sequence
Range(seq) == {seq[i] : i \in 1..Len(seq)}

(***************************************************************************)
(* int() and oct().                                                        *)
(***************************************************************************)

DigitValue(c) ==
    CASE c = "0" -> 0 [] c = "1" -> 1 [] c = "2" -> 2 [] c = "3" -> 3 [] c = "4" -> 4
      [] c = "5" -> 5 [] c = "6" -> 6 [] c = "7" -> 7 [] c = "8" -> 8 [] c = "9" -> 9
      [] OTHER -> -1

RECURSIVE AllDigits(_)
AllDigits(s) == Len(s) = 0 \/ (DigitValue(CharAt(s, 1)) >= 0 /\ AllDigits(SliceFrom(s, 1)))

RECURSIVE DigitsValue(_, _)
DigitsValue(s, acc) ==
    IF Len(s) = 0 THEN acc
    ELSE DigitsValue(SliceFrom(s, 1), 10 * acc + DigitValue(CharAt(s, 1)))

\* the digits of an int() argument once the blanks and the sign are removed
IntBody(s) ==
    LET t == Strip(s)
    IN IF StartsWith(t, "-") \/ StartsWith(t, "+") THEN SliceFrom(t, 1) ELSE t

\* whether int(s) returns (it raises ValueError otherwise)
IsInt(s) == Len(IntBody(s)) > 0 /\ AllDigits(IntBody(s))

\* int(s), where IsInt(s)
Int_(s) ==
    IF StartsWith(Strip(s), "-") THEN 0 - DigitsValue(IntBody(s), 0)
    ELSE DigitsValue(IntBody(s), 0)

DigitChar(d) == CharAt("01234567", d + 1)

RECURSIVE OctDigits(_)
OctDigits(n) == IF n < 8 THEN DigitChar(n) ELSE OctDigits(n \div 8) \o DigitChar(n % 8)

\* oct(n) for n >= 0
Oct(n) == "0o" \o OctDigits(n)

(***************************************************************************)
(* os.path (posixpath).                                                    *)
(***************************************************************************)

RECURSIVE AllSlashes(_)
AllSlashes(s) == Len(s) = 0 \/ (CharAt(s, 1) = "/" /\ AllSlashes(SliceFrom(s, 1)))

\* os.path.dirname(p)
Dirname(p) ==
    LET head == SliceTo(p, RFind(p, "/"))
    IN IF Len(head) > 0 /\ ~AllSlashes(head) THEN RStrip(head, "/") ELSE head

\* os.path.basename(p)
Basename(p) == SliceFrom(p, RFind(p, "/"))

\* the loop of os.path.normpath over the components
RECURSIVE NormComps(_, _, _)
NormComps(comps, new, rooted) ==
    IF Len(comps) = 0 THEN new
    ELSE LET comp == comps[1]
             rest == Tail(comps)
         IN IF comp = "" \/ comp = "." THEN NormComps(rest, new, rooted)
            ELSE IF comp /= ".." \/ (~rooted /\ Len(new) = 0)
                                 \/ (Len(new) > 0 /\ new[Len(new)] = "..")
                 THEN NormComps(rest, Append(new, comp), rooted)
            ELSE IF Len(new) > 0 THEN NormComps(rest, SubSeq(new, 1, Len(new) - 1), rooted)
            ELSE NormComps(rest, new, rooted)

\* os.path.normpath(p)
Normpath(p) ==
    IF p = "" THEN "."
    ELSE LET slashes == IF StartsWith(p, "//") /\ ~StartsWith(p, "///") THEN "//"
                        ELSE IF StartsWith(p, "/") THEN "/" ELSE ""
             body == Join(NormComps(Split(p, "/"), <<>>, slashes /= ""), "/")
         IN IF slashes \o body = "" THEN "." ELSE slashes \o body

(***************************************************************************)
(* Values.  None is the empty tuple and an optional value v is <<v>>, so   *)
(* that a value and None compare.  A function of the script returns        *)
(* [ret, out, exc]: its return value, the findings it printed, in order,   *)
(* and the exception that left it ("none": it returned).                   *)
(***************************************************************************)

None == <<>>

Some(v) == <<v>>

\* str(n) for an integer n
RECURSIVE DecDigits(_)
DecDigits(n) ==
    IF n < 10 THEN CharAt("0123456789", n + 1)
    ELSE DecDigits(n \div 10) \o CharAt("0123456789", (n % 10) + 1)

Str(n) == IF n < 0 THEN "-" \o DecDigits(0 - n) ELSE DecDigits(n)

\* f'{list}' of a list of strings
PyList(seq) == "[" \o Join([i \in 1..Len(seq) |-> "'" \o seq[i] \o "'"], ", ") \o "]"

\* error(flavor, distribution, message): one line printed in red
error(kind, about) == [sev |-> "error", kind |-> kind, about |-> about]

\* warning(flavor, distribution, message): one line printed in yellow
warning(kind, about) == [sev |-> "warning", kind |-> kind, about |-> about]

Errors(out) == {i \in 1..Len(out) : out[i].sev = "error"}

Warnings(out) == {i \in 1..Len(out) : out[i].sev = "warning"}

Returned(ret, out) == [ret |-> ret, out |-> out, exc |-> "none"]

Raised(exc, out) == [ret |-> None, out |-> out, exc |-> exc]

(***************************************************************************)
(* read_passwd.                                                            *)
(***************************************************************************)

\* read_passwd_line(line): (uid, fields), or (None, None) after one error
read_passwd_line(line) ==
    LET fields == Split(line, ":")
    IN IF Len(fields) /= 7
       THEN [uid |-> None, fields |-> None,
             out |-> <<error("Invalid passwd entry", line)>>]
       ELSE IF ~IsInt(fields[3])
       THEN [uid |-> None, fields |-> None,
             out |-> <<error("Invalid passwd entry", line)>>]
       ELSE [uid |-> Some(Int_(fields[3])), fields |-> fields, out |-> <<>>]

\* lines 140-145: the line read as r is recorded in entries, or found there already
PasswdRecord(entries, out, r) ==
    IF r.uid \in DOMAIN entries
    THEN [entries |-> entries,
          out |-> out \o r.out \o <<error("found duplicated uid in /etc/passw",
                                          IF r.uid = None THEN "None" ELSE Str(r.uid[1]))>>]
    ELSE [entries |-> [k \in DOMAIN entries \cup {r.uid} |->
                          IF k = r.uid THEN r.fields ELSE entries[k]],
          out |-> out \o r.out]

\* the loop of read_passwd over fd.readlines(): acc holds the entries and the findings
RECURSIVE PasswdLoop(_, _)
PasswdLoop(lines, acc) ==
    IF Len(lines) = 0 THEN acc
    ELSE PasswdLoop(Tail(lines), PasswdRecord(acc.entries, acc.out, read_passwd_line(lines[1])))

\* the entries of read_passwd when its loop ends
PasswdEntries(lines) == PasswdLoop(lines, [entries |-> <<>>, out |-> <<>>]).entries

\* lines 147-150: the checks of the entry of uid 0
root_checks(entries) ==
    IF Some(0) \notin DOMAIN entries
    THEN <<error("No root (uid=0) found in /etc/passwd", "")>>
    ELSE IF entries[Some(0)][1] /= "root"
    THEN <<error("/etc/passwd has a uid=0, but it is not root", entries[Some(0)][1])>>
    ELSE <<>>

\* lines 152-153: the warning for a default uid that is taken
default_uid_taken(default_uid, entries) ==
    IF default_uid /= None /\ default_uid \in DOMAIN entries
    THEN <<warning("/etc/passwd already has an entry for default uid",
                   PyList(entries[default_uid]))>>
    ELSE <<>>

\* lines 147-153: what read_passwd prints once its loop has ended as loop
passwd_checks(default_uid, loop) ==
    loop.out \o root_checks(loop.entries) \o default_uid_taken(default_uid, loop.entries)

\* read_passwd(flavor, name, default_uid, fd): the findings it prints
read_passwd(default_uid, lines) ==
    passwd_checks(default_uid, PasswdLoop(lines, [entries |-> <<>>, out |-> <<>>]))

(***************************************************************************)
(* tarfile.  An archive is the sequence of its members, each               *)
(* [name, type, linkname, mode, uid, gid, size, magic, lines]: magic is    *)
(* what libmagic says of the member's first bytes and lines its text.      *)
(***************************************************************************)

\* The interpreter's recursion limit (sys.getrecursionlimit(), 1000 frames), scaled
\* to the archives of the model: a resolution that does not cycle uses each symlink
\* at most once as a followed link and once as a parent link, and no archive of the
\* model holds more than five symlinks, so none needs more frames than this.
RecursionLimit == 12

\* TarFile._getmember(name): the position of the last member called name, 0 if none
RECURSIVE LastNamed(_, _, _)
LastNamed(tar, name, i) ==
    IF i = 0 THEN 0
    ELSE IF tar[i].name = name THEN i ELSE LastNamed(tar, name, i - 1)

\* tar.getmember(name): the member's position, 0 for KeyError
getmember(tar, name) == LastNamed(tar, RStrip(name, "/"), Len(tar))

\* TarFile._getmember(name, normalize=True)
RECURSIVE LastNormNamed(_, _, _)
LastNormNamed(tar, name, i) ==
    IF i = 0 THEN 0
    ELSE IF Normpath(tar[i].name) = name THEN i ELSE LastNormNamed(tar, name, i - 1)

\* TarFile._find_link_target(tarinfo) for a symlink: the target's position, 0 for KeyError
find_link_target(tar, i) ==
    LET dir == Dirname(tar[i].name)
        linkname == IF dir = "" THEN tar[i].linkname
                    ELSE IF tar[i].linkname = "" THEN dir
                    ELSE dir \o "/" \o tar[i].linkname
    IN LastNormNamed(tar, Normpath(linkname), Len(tar))

\* tar.extractfile(member) for the member at position i: ret is the position of the
\* member whose content the file object reads, or None (no content: a directory)
RECURSIVE extract_member(_, _, _)
extract_member(tar, i, depth) ==
    IF depth > RecursionLimit THEN Raised("RecursionError", <<>>)
    ELSE IF tar[i].type = "reg" THEN Returned(Some(i), <<>>)
    ELSE IF tar[i].type = "sym"
    THEN IF find_link_target(tar, i) = 0 THEN Raised("KeyError", <<>>)
         ELSE extract_member(tar, find_link_target(tar, i), depth + 1)
    ELSE Returned(None, <<>>)

\* tar.extractfile(name)
extractfile(tar, name) ==
    IF getmember(tar, name) = 0 THEN Raised("KeyError", <<>>)
    ELSE extract_member(tar, getmember(tar, name), 1)

(***************************************************************************)
(* read_tar.validate_mode.  A rule is [mode, uid, gid, max_size, optional, *)
(* magic, parse_method]: mode the accepted oct() strings, gid, max_size    *)
(* and magic optional values, parse_method "none" or "read_passwd" with    *)
(* default_uid the uid read_tar closes the parser over.                    *)
(***************************************************************************)

\* lines 227-238: the checks of the member's own attributes
attribute_checks(info, path, rule) ==
    (IF Oct(info.mode) \notin rule.mode
        THEN <<warning("unexpected mode", path)>> ELSE <<>>)
    \o (IF info.uid /= rule.uid
        THEN <<warning("unexpected uid", path)>> ELSE <<>>)
    \o (IF rule.gid /= None /\ info.gid /= rule.gid[1]
        THEN <<warning("unexpected gid", path)>> ELSE <<>>)
    \o (IF rule.max_size /= None /\ info.size > rule.max_size[1]
        THEN <<error("is too big", path)>> ELSE <<>>)

\* lines 240-251: the content is extracted, parsed and its magic compared
\* lines 246-251: the magic of content is compared, after out was printed
magic_checks(tar, path, rule, content, out) ==
    IF rule.magic = None THEN Returned(TRUE, out)
    \* content.seek(0) of None
    ELSE IF content.ret = None THEN Raised("AttributeError", out)
    ELSE IF tar[content.ret[1]].magic /= rule.magic[1]
    THEN Returned(TRUE, out \o <<error("unexpected magic type", path)>>)
    ELSE Returned(TRUE, out)

\* lines 243-251: content is parsed, then its magic compared
parse_checks(tar, path, rule, content, out) ==
    IF content.exc /= "none" THEN Raised(content.exc, out)
    \* parse_method(content): fd.readlines() of None
    ELSE IF rule.parse_method /= "none" /\ content.ret = None
    THEN Raised("AttributeError", out)
    ELSE magic_checks(tar, path, rule, content,
                      IF rule.parse_method = "none" THEN out
                      ELSE out \o read_passwd(rule.default_uid, tar[content.ret[1]].lines))

content_checks(tar, path, rule, out) ==
    IF rule.magic = None /\ rule.parse_method = "none" THEN Returned(TRUE, out)
    ELSE parse_checks(tar, path, rule, extractfile(tar, path), out)

\* lines 221-253: the member is found at position i under the name path
validate_found(tar, i, path, rule) ==
    content_checks(tar, path, rule, attribute_checks(tar[i], path, rule))

\* validate_mode(path, mode, uid, gid, max_size, optional, follow_symlink, magic,
\* parse_method), in the frame number depth of the interpreter
RECURSIVE validate_mode_at(_, _, _, _, _)
validate_mode_at(tar, path, rule, follow_symlink, depth) ==
    IF depth > RecursionLimit THEN Raised("RecursionError", <<>>)
    ELSE
    LET dotted == "." \o path
        i == IF getmember(tar, path) /= 0 THEN getmember(tar, path) ELSE getmember(tar, dotted)
        found == IF getmember(tar, path) /= 0 THEN path ELSE dotted
        parent_path == Dirname(dotted)
        p == getmember(tar, parent_path)
    IN IF i = 0
       THEN IF parent_path /= dotted /\ p /= 0 /\ tar[p].type = "sym"
            THEN validate_mode_at(tar, "/" \o tar[p].linkname \o "/" \o Basename(dotted),
                                  [rule EXCEPT !.parse_method = "none"], TRUE, depth + 1)
            ELSE Returned(FALSE, IF rule.optional THEN <<>>
                                 ELSE <<error("not found in tar", dotted)>>)
       ELSE IF follow_symlink /\ tar[i].type = "sym"
       THEN IF StartsWith(tar[i].linkname, "/")
            THEN validate_mode_at(tar, tar[i].linkname, rule, TRUE, depth + 1)
            ELSE validate_mode_at(tar, Dirname(found) \o "/" \o tar[i].linkname,
                                  rule, TRUE, depth + 1)
       ELSE validate_found(tar, i, found, rule)

validate_mode(tar, path, rule, follow_symlink) ==
    validate_mode_at(tar, path, rule, follow_symlink, 1)

(***************************************************************************)
(* configparser.ConfigParser, read_config_keys and                         *)
(* read_tar.validate_config.  A dict is the sequence of its [key, value]   *)
(* items in insertion order.                                               *)
(***************************************************************************)

\* the position of key k in dict d, 0 if absent
RECURSIVE DictFind(_, _, _)
DictFind(d, k, i) ==
    IF i > Len(d) THEN 0 ELSE IF d[i].key = k THEN i ELSE DictFind(d, k, i + 1)

\* k in d
DictHas(d, k) == DictFind(d, k, 1) /= 0

\* d[k] = v
DictSet(d, k, v) ==
    IF DictHas(d, k) THEN [d EXCEPT ![DictFind(d, k, 1)].value = v]
    ELSE Append(d, [key |-> k, value |-> v])

\* d.get(k, default)
DictGet(d, k, default) == IF DictHas(d, k) THEN d[DictFind(d, k, 1)].value ELSE default

\* d.keys()
DictKeys(d) == [i \in 1..Len(d) |-> d[i].key]

\* ConfigParser.read_string over the lines that are left: sections is a dict from
\* section name to the dict of its options (the DEFAULT section among them), cur the
\* name of the open section, deferred whether a ParsingError waits for the end
RECURSIVE ParseLines(_, _, _, _)
ParseLines(lines, sections, cur, deferred) ==
    IF Len(lines) = 0
    THEN [exc |-> IF deferred THEN "ParsingError" ELSE "none", sections |-> sections]
    ELSE
    LET line == Strip(lines[1])
        rest == Tail(lines)
        eq == Find(line, "=")
        colon == Find(line, ":")
        delim == IF eq = 0 THEN colon ELSE IF colon = 0 THEN eq
                 ELSE IF eq < colon THEN eq ELSE colon
        optname == Lower(Strip(SliceTo(line, delim - 1)))
        optval == Strip(SliceFrom(line, delim))
        header == SubSeq(line, 2, RFind(line, "]") - 1)
    IN IF line = "" \/ StartsWith(line, "#") \/ StartsWith(line, ";")
       THEN ParseLines(rest, sections, cur, deferred)
       ELSE IF StartsWith(line, "[") /\ RFind(line, "]") > 2
       THEN IF header = "DEFAULT"
            THEN ParseLines(rest, IF DictHas(sections, header) THEN sections
                                  ELSE DictSet(sections, header, <<>>),
                            Some(header), deferred)
            ELSE IF DictHas(sections, header)
            THEN [exc |-> "DuplicateSectionError", sections |-> sections]
            ELSE ParseLines(rest, DictSet(sections, header, <<>>), Some(header), deferred)
       ELSE IF cur = None
       THEN [exc |-> "MissingSectionHeaderError", sections |-> sections]
       ELSE IF delim = 0
       THEN ParseLines(rest, sections, cur, TRUE)
       ELSE IF DictHas(DictGet(sections, cur[1], <<>>), optname)
       THEN [exc |-> "DuplicateOptionError", sections |-> sections]
       ELSE ParseLines(rest,
                DictSet(sections, cur[1],
                        DictSet(DictGet(sections, cur[1], <<>>), optname, optval)),
                cur, deferred \/ optname = "")

\* config.read_string(text)
read_string(lines) == ParseLines(lines, <<>>, None, FALSE)

\* config[section].keys(), config[section][key]: the section's own options, then
\* those of the DEFAULT section it does not set
SectionItems(sections, name) ==
    LET own == DictGet(sections, name, <<>>)
        defaults == DictGet(sections, "DEFAULT", <<>>)
        RECURSIVE Merge(_, _)
        Merge(acc, ds) ==
            IF Len(ds) = 0 THEN acc
            ELSE Merge(IF DictHas(acc, ds[1].key) THEN acc ELSE Append(acc, ds[1]), Tail(ds))
    IN Merge(own, defaults)

\* read_config_keys(config): the dict from 'section.key' to value
RECURSIVE read_config_keys_from(_, _, _)
read_config_keys_from(sections, i, keys) ==
    IF i > Len(sections) THEN keys
    ELSE IF sections[i].key = "DEFAULT" THEN read_config_keys_from(sections, i + 1, keys)
    ELSE LET items == SectionItems(sections, sections[i].key)
             RECURSIVE Put(_, _)
             Put(acc, j) ==
                 IF j > Len(items) THEN acc
                 ELSE Put(DictSet(acc, sections[i].key \o "." \o items[j].key, items[j].value),
                          j + 1)
         IN read_config_keys_from(sections, i + 1, Put(keys, 1))

read_config_keys(sections) == read_config_keys_from(sections, 1, <<>>)

\* [e for e in keys if e not in valid_keys]
RECURSIVE NotIn(_, _)
NotIn(seq, valid) ==
    IF Len(seq) = 0 THEN <<>>
    ELSE (IF seq[1] \in valid THEN <<>> ELSE <<seq[1]>>) \o NotIn(Tail(seq), valid)

\* lines 270-276: the keys read are returned, after an error for those not in valid_keys
unexpected_keys_check(keys, unexpected_keys) ==
    IF Len(unexpected_keys) > 0
    THEN Returned(Some(keys), <<error("Found unexpected_keys", PyList(unexpected_keys))>>)
    ELSE Returned(Some(keys), <<>>)

keys_check(keys, valid_keys) == unexpected_keys_check(keys, NotIn(DictKeys(keys), valid_keys))

\* lines 266-276: config is what read_string made of the file
config_check(config, valid_keys) ==
    IF config.exc /= "none" THEN Raised(config.exc, <<>>)
    ELSE keys_check(read_config_keys(config.sections), valid_keys)

\* lines 262-276: content is what extractfile gave
content_check(tar, content, valid_keys) ==
    IF content.exc = "KeyError"
    THEN Returned(None, <<error("not found in tar", "<file object>")>>)
    ELSE IF content.exc /= "none" THEN Raised(content.exc, <<>>)
    \* content.read() of None
    ELSE IF content.ret = None THEN Raised("AttributeError", <<>>)
    ELSE config_check(read_string(tar[content.ret[1]].lines), valid_keys)

\* lines 256-260: the file is looked up under path, then under '.' + path
extract_either(tar, path, first) ==
    IF first.exc = "KeyError" THEN extractfile(tar, "." \o path) ELSE first

\* validate_config(path, valid_keys): ret is the dict of keys (as an optional
\* value: the empty dict is not None), or None
validate_config(tar, path, valid_keys) ==
    content_check(tar, extract_either(tar, path, extractfile(tar, path)), valid_keys)

(***************************************************************************)
(* read_systemd_enabled_units.                                             *)
(***************************************************************************)

config_dirs ==
    <<"/usr/local/lib/systemd/system", "/usr/lib/systemd/system", "/etc/systemd/system">>

\* tar.getnames()
getnames(tar) == [i \in 1..Len(tar) |-> tar[i].name]

\* link_target(unit_path): ret is the link's target, or the path itself
link_target(tar, unit_path) ==
    LET i == IF getmember(tar, unit_path) /= 0 THEN getmember(tar, unit_path)
             ELSE getmember(tar, "." \o unit_path)
    IN IF i = 0 THEN Raised("KeyError", <<>>)
       ELSE IF tar[i].type /= "sym" THEN Returned(unit_path, <<>>)
       ELSE Returned(tar[i].linkname, <<>>)

\* list_directory(path) over the names that are left
RECURSIVE list_directory(_, _)
list_directory(all_files, path) ==
    IF Len(all_files) = 0 THEN <<>>
    ELSE LET e == all_files[1]
         IN (IF StartsWith(e, path) THEN <<SliceFrom(e, Len(path) + 1)>>
             ELSE IF StartsWith(e, "." \o path) THEN <<SliceFrom(e, Len(path) + 2)>>
             ELSE <<>>)
            \o list_directory(Tail(all_files), path)

\* [e for e in files if e.endswith('.target.wants')]
RECURSIVE WantsOnly(_)
WantsOnly(files) ==
    IF Len(files) = 0 THEN <<>>
    ELSE (IF EndsWith(files[1], ".target.wants") THEN <<files[1]>> ELSE <<>>)
         \o WantsOnly(Tail(files))

\* the members of one target directory, were the test for /dev/null left out
RECURSIVE scan_target_unmasked(_, _, _, _)
scan_target_unmasked(tar, dir, members, units) ==
    IF Len(members) = 0 THEN Returned(units, <<>>)
    ELSE LET e == members[1]
             fullpath == dir \o "/" \o e
             unit_target == link_target(tar, fullpath)
         IN IF unit_target.exc /= "none" THEN Raised(unit_target.exc, <<>>)
            ELSE scan_target_unmasked(tar, dir, Tail(members), DictSet(units, e, fullpath))

\* lines 187-192: the members of one target directory
RECURSIVE scan_target(_, _, _, _)
scan_target(tar, dir, members, units) ==
    IF Len(members) = 0 THEN Returned(units, <<>>)
    ELSE LET e == members[1]
             fullpath == dir \o "/" \o e
             unit_target == link_target(tar, fullpath)
         IN IF unit_target.exc /= "none" THEN Raised(unit_target.exc, <<>>)
            ELSE scan_target(tar, dir, Tail(members),
                             IF unit_target.ret /= "/dev/null"
                             THEN DictSet(units, e, fullpath) ELSE units)

\* lines 186-192: the target directories of one configuration directory
RECURSIVE scan_targets(_, _, _, _)
scan_targets(tar, config_dir, targets, units) ==
    IF Len(targets) = 0 THEN Returned(units, <<>>)
    ELSE LET dir == config_dir \o "/" \o targets[1]
             r == scan_target(tar, dir, list_directory(getnames(tar), dir), units)
         IN IF r.exc /= "none" THEN r
            ELSE scan_targets(tar, config_dir, Tail(targets), r.ret)

\* lines 183-192: the configuration directories from position i on
RECURSIVE scan_config_dirs(_, _, _)
scan_config_dirs(tar, i, units) ==
    IF i > Len(config_dirs) THEN Returned(units, <<>>)
    ELSE LET r == scan_targets(tar, config_dirs[i],
                               WantsOnly(list_directory(getnames(tar), config_dirs[i])),
                               units)
         IN IF r.exc /= "none" THEN r ELSE scan_config_dirs(tar, i + 1, r.ret)

\* read_systemd_enabled_units(flavor, name, tar): ret is the dict from unit to path
read_systemd_enabled_units(tar) == scan_config_dirs(tar, 1, <<>>)

(***************************************************************************)
(* read_tar: the checks of one opened archive, in order.  An exception     *)
(* ends it with the findings printed so far.                               *)
(***************************************************************************)

USR_LIB_WSL == "/usr/lib/wsl"

DISCOURAGED_SYSTEM_UNITS ==
    {"systemd-resolved.service", "systemd-networkd.service",
     "systemd-tmpfiles-setup.service", "systemd-tmpfiles-clean.service",
     "systemd-tmpfiles-setup-dev-early.service", "systemd-tmpfiles-setup-dev.service",
     "tmp.mount", "NetworkManager.service", "networking.service"}

\* the rule validate_mode gets: [oct(a), oct(b)], uid 0 and the rest
Rule(a, b, gid, max_size, optional, magic, parse_method, default_uid) ==
    [mode |-> {Oct(a), Oct(b)}, uid |-> 0, gid |-> gid, max_size |-> max_size,
     optional |-> optional, magic |-> magic, parse_method |-> parse_method,
     default_uid |-> default_uid]

\* statement a, then statement b if a did not raise: b's value, the findings of both
AndThen(a, b) ==
    IF a.exc /= "none" THEN a
    ELSE [ret |-> b.ret, out |-> a.out \o b.out, exc |-> b.exc]

\* lines 282-286, 294-298, 300-304: the file a configuration value names
path_value_check(tar, value, rule, key) ==
    IF value = "" THEN Returned(None, <<>>)
    ELSE AndThen(validate_mode(tar, value, rule, FALSE),
                 Returned(None, IF ~StartsWith(value, USR_LIB_WSL)
                                THEN <<warning("value is not under /usr/lib/wsl", key)>>
                                ELSE <<>>))

\* lines 288-292: ret is defaultUid (an empty value leaves '', which no later
\* statement tells from None)
default_uid_check(value) ==
    IF value = "" THEN Returned(None, <<>>)
    ELSE LET out == IF value /= "1000"
                    THEN <<warning("Default UID is not 1000", value)>> ELSE <<>>
         IN IF IsInt(value) THEN Returned(Some(Int_(value)), out)
            ELSE Raised("ValueError", out)

\* statement a, then statement b if a did not raise: a's value, the findings of both
KeepRet(a, b) ==
    IF a.exc /= "none" THEN a
    ELSE [ret |-> a.ret, out |-> a.out \o b.out, exc |-> b.exc]

\* lines 282-304: config.get(...) of the keys validate_config returned; ret is defaultUid
distribution_keys_checks(tar, config) ==
    IF config = None THEN Raised("AttributeError", <<>>)
    ELSE
    AndThen(path_value_check(tar, DictGet(config[1], "oobe.command", ""),
                Rule(509, 493, Some(0), None, FALSE, None, "none", None),
                "oobe.command"),
    KeepRet(default_uid_check(DictGet(config[1], "oobe.defaultuid", "")),
    AndThen(path_value_check(tar, DictGet(config[1], "shortcut.icon", ""),
                Rule(432, 416, Some(0), Some(1024 * 1024), FALSE, None, "none", None),
                "shortcut.icon"),
            path_value_check(tar, DictGet(config[1], "windowsterminal.profileTemplate", ""),
                Rule(432, 416, Some(0), Some(1024 * 1024), FALSE, None, "none", None),
                "windowsterminal.profileTemplate"))))

distribution_valid_keys ==
    {"oobe.command", "oobe.defaultuid", "shortcut.icon", "oobe.defaultname",
     "windowsterminal.profileTemplate"}

\* lines 280-304: config is what validate_config gave, after out was printed
distribution_conf_read(tar, out, config) ==
    IF config.exc /= "none" THEN Raised(config.exc, out \o config.out)
    ELSE AndThen(Returned(None, out \o config.out), distribution_keys_checks(tar, config.ret))

\* lines 279-304: found is what validate_mode gave
distribution_conf_found(tar, found) ==
    IF found.exc /= "none" THEN found
    ELSE IF ~found.ret THEN Returned(None, found.out)
    ELSE distribution_conf_read(tar, found.out,
             validate_config(tar, "/etc/wsl-distribution.conf", distribution_valid_keys))

\* lines 278-304: ret is defaultUid
distribution_conf_checks(tar) ==
    distribution_conf_found(tar,
        validate_mode(tar, "/etc/wsl-distribution.conf",
                      Rule(436, 420, Some(0), None, FALSE, None, "none", None), FALSE))

\* line 308: config.get('boot.systemd', False) as a condition: any non-empty string
systemd_enabled(config) == DictGet(config, "boot.systemd", "") /= ""

\* lines 308-309: config is what validate_config gave, after out was printed
wsl_conf_read(tar, elf_magic, out, config) ==
    IF config.exc /= "none" THEN Raised(config.exc, out \o config.out)
    ELSE IF config.ret = None THEN Raised("AttributeError", out \o config.out)
    ELSE IF systemd_enabled(config.ret[1])
    THEN AndThen(Returned(None, out \o config.out),
                 validate_mode(tar, "/sbin/init",
                     Rule(509, 493, Some(0), None, FALSE, Some(elf_magic), "none", None),
                     FALSE))
    ELSE Returned(None, out \o config.out)

\* lines 306-309: found is what validate_mode gave
wsl_conf_found(tar, elf_magic, found) ==
    IF found.exc /= "none" THEN found
    ELSE IF ~found.ret THEN Returned(None, found.out)
    ELSE wsl_conf_read(tar, elf_magic, found.out,
                       validate_config(tar, "/etc/wsl.conf", {"boot.systemd"}))

\* lines 306-309
wsl_conf_checks(tar, elf_magic) ==
    wsl_conf_found(tar, elf_magic,
        validate_mode(tar, "/etc/wsl.conf",
                      Rule(436, 420, Some(0), None, TRUE, None, "none", None), FALSE))

\* lines 311-314
fixed_files_checks(tar, elf_magic, defaultUid) ==
    AndThen(validate_mode(tar, "/etc/passwd",
                Rule(436, 420, Some(0), None, FALSE, None, "read_passwd", defaultUid), FALSE),
    AndThen(validate_mode(tar, "/etc/shadow",
                Rule(416, 384, None, None, FALSE, None, "none", None), FALSE),
    AndThen(validate_mode(tar, "/bin/bash",
                Rule(493, 509, Some(0), None, FALSE, Some(elf_magic), "none", None), TRUE),
            validate_mode(tar, "/bin/sh",
                Rule(493, 509, Some(0), None, FALSE, Some(elf_magic), "none", None), TRUE))))

\* lines 317-319 over the units that are left
RECURSIVE discouraged_warnings(_)
discouraged_warnings(units) ==
    IF Len(units) = 0 THEN <<>>
    ELSE (IF units[1].key \in DISCOURAGED_SYSTEM_UNITS
          THEN <<warning("Found discouraged system unit", units[1].value)>> ELSE <<>>)
         \o discouraged_warnings(Tail(units))

\* lines 317-319: units is what read_systemd_enabled_units gave
discouraged_check(units) ==
    IF units.exc /= "none" THEN units
    ELSE Returned(None, discouraged_warnings(units.ret))

\* lines 316-319
units_checks(tar) == discouraged_check(read_systemd_enabled_units(tar))

\* lines 306-319, after lines 278-304 ended as conf
read_tar_rest(tar, elf_magic, conf) ==
    AndThen(conf,
    AndThen(wsl_conf_checks(tar, elf_magic),
    AndThen(fixed_files_checks(tar, elf_magic, conf.ret),
            units_checks(tar))))

\* read_tar(flavor, name, file, elf_magic) of a file that holds the archive tar
read_tar(tar, elf_magic) == read_tar_rest(tar, elf_magic, distribution_conf_checks(tar))

(***************************************************************************)
(* The archives of the model.  Members are written with their logical      *)
(* name ("bin/sh"); an archive stores every name with one prefix, the bare *)
(* slash ("/bin/sh") or the rooted prefix ("./bin/sh").                     *)
(***************************************************************************)

\* the largest archive drawn from a pool, in members
MaxEntries == 5

\* the longest passwd file, in lines
MaxLines == 3

X64_ELF_MAGIC == "ELF 64-bit LSB shared object, x86-64, version 1 (SYSV)"

ARM64_ELF_MAGIC == "ELF 64-bit LSB pie executable, ARM aarch64, version 1 (SYSV)"

Reg(name, mode, uid, magic, lines) ==
    [name |-> name, type |-> "reg", linkname |-> "", mode |-> mode, uid |-> uid,
     gid |-> uid, size |-> Len(lines), magic |-> magic, lines |-> lines]

Sym(name, linkname) ==
    [name |-> name, type |-> "sym", linkname |-> linkname, mode |-> 511, uid |-> 0,
     gid |-> 0, size |-> 0, magic |-> "", lines |-> <<>>]

Dir(name) ==
    [name |-> name, type |-> "dir", linkname |-> "", mode |-> 493, uid |-> 0,
     gid |-> 0, size |-> 0, magic |-> "", lines |-> <<>>]

Encodings == {"/", "./"}

\* the archive that stores the members under the prefix enc
Encode(members, enc) ==
    [i \in 1..Len(members) |-> [members[i] EXCEPT !.name = enc \o @]]

\* the members of pool at the positions in picked, in the pool's order
RECURSIVE Pick(_, _, _)
Pick(pool, picked, i) ==
    IF i > Len(pool) THEN <<>>
    ELSE (IF i \in picked THEN <<pool[i]>> ELSE <<>>) \o Pick(pool, picked, i + 1)

\* the archives of at most MaxEntries members of pool, no name twice
Archives(pool) ==
    {Pick(pool, picked, 1) :
        picked \in {q \in SUBSET (1..Len(pool)) :
                       /\ Cardinality(q) <= MaxEntries
                       /\ \A i, j \in q : i /= j => pool[i].name /= pool[j].name}}

\* the members the shell rules of read_tar (lines 313-314) are tried on
ShellPool ==
    << Sym("bin/sh", "bash"),
       Sym("bin/sh", "/bin/bash"),
       Sym("bin/sh", "../usr/bin/bash"),
       Sym("bin/sh", "sh"),
       Reg("bin/bash", 493, 0, X64_ELF_MAGIC, <<>>),
       Sym("bin/bash", "sh"),
       Sym("bin/bash", "/usr/bin/bash"),
       Reg("usr/bin/bash", 493, 0, X64_ELF_MAGIC, <<>>),
       Reg("usr/bin/bash", 448, 1000, "ASCII text", <<>>),
       Sym("bin", "usr/bin"),
       Sym("bin", "bin"),
       Sym("usr/bin/sh", "bash") >>

\* the rule of lines 313-314, with its optional flag
ShellRule(optional) ==
    Rule(493, 509, Some(0), None, optional, Some(X64_ELF_MAGIC), "none", None)

\* the options a configuration file of the model may set, as written in the file:
\* the five keys of the allow-list of line 280, and two keys outside it
ConfigItems ==
    << [section |-> "oobe", key |-> "command", value |-> "/usr/lib/wsl/oobe.sh"],
       [section |-> "oobe", key |-> "defaultuid", value |-> "1000"],
       [section |-> "oobe", key |-> "defaultname", value |-> "user"],
       [section |-> "oobe", key |-> "shell", value |-> "/bin/sh"],
       [section |-> "shortcut", key |-> "icon", value |-> "/usr/lib/wsl/icon.ico"],
       [section |-> "windowsterminal", key |-> "profileTemplate",
        value |-> "/usr/lib/wsl/terminal.json"],
       [section |-> "boot", key |-> "systemd", value |-> "true"] >>

\* the text of the file that sets the options items: a header where the section
\* changes, then 'key = value'
RECURSIVE Render(_, _)
Render(items, section) ==
    IF Len(items) = 0 THEN <<>>
    ELSE (IF items[1].section /= section THEN <<"[" \o items[1].section \o "]">> ELSE <<>>)
         \o <<items[1].key \o " = " \o items[1].value>>
         \o Render(Tail(items), items[1].section)

\* the lines of a passwd file of the model
PasswdLines ==
    { "root:x:0:0:root:/root:/bin/sh",
      "toor:x:0:0:root:/root:/bin/sh",
      "user:x:1000:1000::/home/user:/bin/sh",
      "daemon:x:1:1::/:/sbin/nologin",
      "bad",
      "worse:x:abc:0::/:/bin/sh" }

\* the sequences of at most n elements of S
RECURSIVE SeqsUpTo(_, _)
SeqsUpTo(S, n) ==
    IF n = 0 THEN {<<>>}
    ELSE SeqsUpTo(S, n - 1) \cup {Append(q, e) : q \in SeqsUpTo(S, n - 1), e \in S}

WantsEtc == "etc/systemd/system/multi-user.target.wants"

WantsLib == "usr/lib/systemd/system/multi-user.target.wants"

\* the members read_systemd_enabled_units is tried on
UnitsPool ==
    << Dir(WantsLib),
       Sym(WantsLib \o "/foo.service", "../foo.service"),
       Sym(WantsLib \o "/foo.service", "/dev/null"),
       Reg(WantsLib \o "/tmp.mount", 420, 0, "ASCII text", <<>>),
       Dir(WantsEtc),
       Sym(WantsEtc \o "/foo.service", "/usr/lib/systemd/system/foo.service"),
       Sym(WantsEtc \o "/foo.service", "/dev/null"),
       Sym(WantsEtc \o "/tmp.mount", "/dev/null"),
       Reg("usr/lib/systemd/system/foo.service", 420, 0, "ASCII text", <<>>) >>

\* one choice for each file read_tar looks at
ConfChoices ==
    { <<>>,
      <<Reg("etc/wsl-distribution.conf", 420, 0, "ASCII text",
            <<"[oobe]", "defaultUid = 1000", "defaultName = user">>)>>,
      <<Reg("etc/wsl-distribution.conf", 420, 0, "ASCII text",
            <<"[oobe]", "defaultUid = abc">>)>>,
      <<Reg("etc/wsl-distribution.conf", 420, 0, "ASCII text",
            <<"[windowsterminal]", "profileTemplate = /usr/lib/wsl/t.json">>)>>,
      <<Reg("etc/wsl-distribution.conf", 384, 0, "ASCII text",
            <<"[oobe]", "command = /opt/oobe.sh">>)>>,
      <<Dir("etc/wsl-distribution.conf")>> }

WslChoices ==
    { <<>>,
      <<Reg("etc/wsl.conf", 420, 0, "ASCII text", <<"[boot]", "systemd = true">>)>>,
      <<Reg("etc/wsl.conf", 420, 0, "ASCII text", <<"[boot]", "systemd = false">>)>>,
      <<Reg("etc/wsl.conf", 420, 0, "ASCII text", <<"[boot]">>)>>,
      <<Reg("etc/wsl.conf", 420, 0, "ASCII text", <<"[automount]", "enabled = true">>)>>,
      <<Sym("etc/wsl.conf", "missing.conf")>> }

InitChoices ==
    { <<>>,
      <<Reg("sbin/init", 493, 0, X64_ELF_MAGIC, <<>>)>>,
      <<Reg("sbin/init", 493, 0, "ASCII text", <<>>)>>,
      <<Sym("sbin/init", "/lib/systemd/systemd")>>,
      <<Dir("sbin/init")>> }

PasswdChoices ==
    { <<>>,
      <<Reg("etc/passwd", 420, 0, "ASCII text", <<"root:x:0:0:root:/root:/bin/sh">>)>>,
      <<Reg("etc/passwd", 420, 0, "ASCII text",
            <<"root:x:0:0:root:/root:/bin/sh", "bad", "worse:x:abc:0::/:/bin/sh">>)>> }

ShellChoices ==
    { <<Reg("bin/bash", 493, 0, X64_ELF_MAGIC, <<>>), Sym("bin/sh", "bash")>>,
      <<Sym("bin/bash", "/usr/bin/bash"), Sym("bin/sh", "bash")>> }

\* the members under etc/ moved to cfg/, behind the symlink etc -> cfg
RECURSIVE Relink(_)
Relink(members) ==
    IF Len(members) = 0 THEN <<>>
    ELSE <<IF StartsWith(members[1].name, "etc/")
           THEN [members[1] EXCEPT !.name = "cfg/" \o SliceFrom(@, 4)]
           ELSE members[1]>> \o Relink(Tail(members))

\* the archives read_tar is tried on
ReadTarArchives ==
    LET plain == {c \o w \o i \o p \o <<Reg("etc/shadow", 416, 0, "ASCII text", <<>>)>>
                    \o s \o <<Dir(WantsEtc), Sym(WantsEtc \o "/tmp.mount", "../tmp.mount")>> :
                  c \in ConfChoices, w \in WslChoices, i \in InitChoices,
                  p \in PasswdChoices, s \in ShellChoices}
    IN plain \cup {<<Sym("etc", "cfg")>> \o Relink(m) : m \in plain}

(***************************************************************************)
(* The state: the function under run (prog), the place in it (pc), the     *)
(* archive's members (tar), the arguments (args) and, once a call ended,   *)
(* what it returned, printed and raised (res).  A run of main also has the *)
(* findings printed so far (out), the local variable hash of read_url      *)
(* (None: unbound), the chunks the open stream still holds (stream), the   *)
(* place in the manifest (pos), the exception in flight (exc) and the      *)
(* status the process exits with (exit_status).                            *)
(***************************************************************************)

VARIABLES prog, pc, tar, args, res, out, hash, stream, pos, exc, exit_status

vars == <<prog, pc, tar, args, res, out, hash, stream, pos, exc, exit_status>>

mainvars == <<out, hash, stream, pos, exc, exit_status>>

\* the variables of main, in a run of one function alone
NoMain ==
    /\ out = <<>> /\ hash = None /\ stream = <<>> /\ pos = None
    /\ exc = "none" /\ exit_status = None

\* validate_mode is called on one archive, stored under each prefix
InitValidateMode ==
    /\ prog = "validate_mode"
    /\ pc = "call"
    /\ tar \in Archives(ShellPool)
    /\ args \in [path : {"/bin/sh", "/bin/bash"}, optional : BOOLEAN,
                 follow_symlink : BOOLEAN]
    /\ res = None
    /\ NoMain

CallValidateMode ==
    /\ prog = "validate_mode" /\ pc = "call"
    /\ res' = [enc \in Encodings |->
                  validate_mode(Encode(tar, enc), args.path, ShellRule(args.optional),
                                args.follow_symlink)]
    /\ pc' = "done"
    /\ UNCHANGED <<prog, tar, args, mainvars>>

\* validate_config is called on the file that sets some of the ConfigItems, or on
\* an archive without the file
InitValidateConfig ==
    /\ prog = "validate_config"
    /\ pc = "call"
    /\ \E picked \in SUBSET (1..Len(ConfigItems)), enc \in Encodings,
          kind \in {"reg", "dir", "absent"} :
          /\ kind /= "reg" => picked = {}
          /\ args = [path |-> "/etc/wsl-distribution.conf", enc |-> enc,
                     valid_keys |-> distribution_valid_keys,
                     items |-> Pick(ConfigItems, picked, 1)]
          /\ tar = IF kind = "reg"
                   THEN <<Reg("etc/wsl-distribution.conf", 420, 0, "ASCII text",
                              Render(Pick(ConfigItems, picked, 1), ""))>>
                   ELSE IF kind = "dir" THEN <<Dir("etc/wsl-distribution.conf")>>
                   ELSE <<>>
    /\ res = None
    /\ NoMain

CallValidateConfig ==
    /\ prog = "validate_config" /\ pc = "call"
    /\ res' = validate_config(Encode(tar, args.enc), args.path, args.valid_keys)
    /\ pc' = "done"
    /\ UNCHANGED <<prog, tar, args, mainvars>>

\* read_passwd is called on a file of at most MaxLines lines
InitReadPasswd ==
    /\ prog = "read_passwd"
    /\ pc = "call"
    /\ tar = <<>>
    /\ args \in [default_uid : {None, Some(1000)}, lines : SeqsUpTo(PasswdLines, MaxLines)]
    /\ res = None
    /\ NoMain

\* entries is the key set of the local dict entries when read_passwd returns
CallReadPasswd ==
    /\ prog = "read_passwd" /\ pc = "call"
    /\ res' = [ret |-> None, out |-> read_passwd(args.default_uid, args.lines),
               exc |-> "none", entries |-> DOMAIN PasswdEntries(args.lines)]
    /\ pc' = "done"
    /\ UNCHANGED <<prog, tar, args, mainvars>>

\* read_systemd_enabled_units is called on one archive
InitUnits ==
    /\ prog = "read_systemd_enabled_units"
    /\ pc = "call"
    /\ tar \in Archives(UnitsPool)
    /\ args \in [enc : Encodings]
    /\ res = None
    /\ NoMain

CallUnits ==
    /\ prog = "read_systemd_enabled_units" /\ pc = "call"
    /\ res' = read_systemd_enabled_units(Encode(tar, args.enc))
    /\ pc' = "done"
    /\ UNCHANGED <<prog, tar, args, mainvars>>

\* read_tar is called on one archive
InitReadTar ==
    /\ prog = "read_tar"
    /\ pc = "call"
    /\ tar \in ReadTarArchives
    /\ args \in [enc : Encodings, elf_magic : {X64_ELF_MAGIC}]
    /\ res = None
    /\ NoMain

CallReadTar ==
    /\ prog = "read_tar" /\ pc = "call"
    /\ res' = read_tar(Encode(tar, args.enc), args.elf_magic)
    /\ pc' = "done"
    /\ UNCHANGED <<prog, tar, args, mainvars>>

SpecValidateMode == InitValidateMode /\ [][CallValidateMode]_vars

SpecValidateConfig == InitValidateConfig /\ [][CallValidateConfig]_vars

SpecReadPasswd == InitReadPasswd /\ [][CallReadPasswd]_vars

SpecUnits == InitUnits /\ [][CallUnits]_vars

SpecReadTar == InitReadTar /\ [][CallReadTar]_vars
(***************************************************************************)
(* main and read_url, one step per place where the run can stop or raise. *)
(* The file system, the web and the contents of the archives are fixed:   *)
(* a body is the sequence of the chunks it is read in, and a digest is    *)
(* the SHA-256 of the text fed to it.                                     *)
(***************************************************************************)

\* the most flavors of a manifest, and the most versions of all its flavors together
MaxFlavors == 2

MaxVersions == 2

\* the 1-based position of the first old in s from position i on, 0 if none
RECURSIVE FindStr(_, _, _)
FindStr(s, old, i) ==
    IF i + Len(old) - 1 > Len(s) THEN 0
    ELSE IF SubSeq(s, i, i + Len(old) - 1) = old THEN i ELSE FindStr(s, old, i + 1)

\* s.replace(old, '')
RECURSIVE Remove(_, _)
Remove(s, old) ==
    LET i == FindStr(s, old, 1)
    IN IF i = 0 THEN s ELSE SliceTo(s, i - 1) \o Remove(SliceFrom(s, i - 1 + Len(old)), old)

\* an archive read_tar has nothing to say about, for the x64 magic
GoodTar ==
    << Reg("etc/wsl-distribution.conf", 420, 0, "ASCII text",
           <<"[oobe]", "defaultUid = 1000", "defaultName = user">>),
       Reg("etc/wsl.conf", 420, 0, "ASCII text", <<"[boot]", "systemd = true">>),
       Reg("sbin/init", 493, 0, X64_ELF_MAGIC, <<>>),
       Reg("etc/passwd", 420, 0, "ASCII text", <<"root:x:0:0:root:/root:/bin/sh">>),
       Reg("etc/shadow", 416, 0, "ASCII text", <<>>),
       Reg("bin/bash", 493, 0, X64_ELF_MAGIC, <<>>),
       Sym("bin/sh", "bash") >>

\* the same with a discouraged unit: one warning
WarnTar == GoodTar \o <<Dir(WantsEtc), Sym(WantsEtc \o "/tmp.mount", "../tmp.mount")>>

\* an archive on which read_tar raises ValueError
CrashTar ==
    <<Reg("etc/wsl-distribution.conf", 420, 0, "ASCII text", <<"[oobe]", "defaultUid = abc">>)>>

\* open(path, 'rb'): None if there is no such file, or the chunks fd.read returns
open(path) ==
    CASE path = "tmp/good.tar" -> Some(<<"good.tar:1", "good.tar:2">>)
      [] path = "tmp/warn.tar" -> Some(<<"warn.tar:1", "warn.tar:2">>)
      [] path = "tmp/bad.tar" -> Some(<<"bad.tar:1", "bad.tar:2">>)
      [] path = "tmp/crash.tar" -> Some(<<"crash.tar:1", "crash.tar:2">>)
      [] OTHER -> None

\* requests.get(url, stream=True): the status, and the chunks iter_content yields
requests_get(url) ==
    CASE url = "https://example.com/good.tar" ->
            [status_code |-> 200, content |-> <<"good.tar:1", "good.tar:2">>]
      [] url = "https://example.com/empty.tar" -> [status_code |-> 200, content |-> <<>>]
      [] OTHER -> [status_code |-> 404, content |-> <<>>]

\* tarfile.TarFile(fileobj=file) on a file that holds data: None for ReadError
TarFile(data) ==
    CASE data = "good.tar:1good.tar:2" -> Some(Encode(GoodTar, "./"))
      [] data = "warn.tar:1warn.tar:2" -> Some(Encode(WarnTar, "./"))
      [] data = "bad.tar:1bad.tar:2" -> Some(<<>>)
      [] data = "crash.tar:1crash.tar:2" -> Some(Encode(CrashTar, "./"))
      [] OTHER -> None

\* hashlib.sha256(data).hexdigest()
hexdigest(data) ==
    CASE data = "good.tar:1good.tar:2" ->
            "f1d4b658270cb5d9eb2d030d2549308c6dfb3b0aee1cba9fe1f36b77f9d508cf"
      [] data = "warn.tar:1warn.tar:2" ->
            "41b6079801aa257c1bc42686e18160395ba3ea014445c9f3b2b344884354d868"
      [] data = "bad.tar:1bad.tar:2" ->
            "2e25b7830d82b842ec606847eda827a671aa04a0cdfa90074374f87141b802c6"
      [] data = "crash.tar:1crash.tar:2" ->
            "761b1b738477c867f74033e5284e505dc94876ac30f3d70d755c56da672e69b2"
      [] data = "" ->
            "e3b0c44298fc1c149afbf4c8996fb92427ae41e4649b934ca495991b7852b855"
      [] OTHER -> "sha256(" \o data \o ")"

\* whether s is an even number of hexadecimal digits
RECURSIVE IsHex(_)
IsHex(s) ==
    IF Len(s) = 0 THEN TRUE
    ELSE IF Len(s) = 1 THEN FALSE
    ELSE /\ \A i \in 1..2 : Find("0123456789abcdef", LowerChar(CharAt(s, i))) /= 0
         /\ IsHex(SliceFrom(s, 2))

\* bytes.fromhex(s), the bytes written in lower-case hexadecimal: None for ValueError
fromhex(s) == IF IsHex(s) THEN Some(Lower(s)) ELSE None

\* with tarfile.TarFile(fileobj=file) as tar: the body of read_tar
read_tar_file(data, elf_magic) ==
    IF TarFile(data) = None THEN Raised("ReadError", <<>>)
    ELSE read_tar(TarFile(data)[1], elf_magic)

\* the entries of a manifest: absent keys are None or FALSE, extra holds the other keys
Url(url, sha256) == [Url |-> url, Sha256 |-> sha256]

Entry(name, friendly, default, amd64, arm64, extra) ==
    [Name |-> name, FriendlyName |-> friendly, Default |-> default,
     Amd64Url |-> amd64, Arm64Url |-> arm64, extra |-> extra]

GoodSha == "f1d4b658270cb5d9eb2d030d2549308c6dfb3b0aee1cba9fe1f36b77f9d508cf"

\* the entries the manifests of the model are made of
EntryPool ==
    { Entry(Some("Ubuntu-24.04"), TRUE, TRUE,
            Some(Url("file:///tmp/good.tar", Some(GoodSha))), None, <<>>),
      Entry(Some("Noble"), TRUE, TRUE,
            Some(Url("file://tmp/good.tar", Some("0xF1D4B658270CB5D9EB2D030D2549308C6DFB3B0AEE1CBA9FE1F36B77F9D508CF"))),
            Some(Url("file:///tmp/warn.tar", Some(GoodSha))), <<>>),
      Entry(None, TRUE, FALSE, None, None, <<>>),
      Entry(Some("Jammy"), FALSE, FALSE, None, None, <<"Bogus">>),
      Entry(Some("Jammy"), TRUE, TRUE,
            Some(Url("file:///tmp/bad.tar", None)),
            Some(Url("file:///tmp/missing.tar", Some(GoodSha))), <<>>),
      Entry(Some("Sid"), TRUE, TRUE,
            Some(Url("https://example.com/good.tar", Some(GoodSha))), None, <<>>),
      Entry(Some("Sid"), TRUE, FALSE,
            None, Some(Url("https://example.com/empty.tar", Some(GoodSha))), <<>>),
      Entry(Some("Sid"), TRUE, FALSE,
            Some(Url("https://example.com/gone.tar", Some(GoodSha))), None, <<>>),
      Entry(Some("Trixie"), TRUE, TRUE,
            Some(Url("file:///tmp/crash.tar", Some(GoodSha))), None, <<>>),
      Entry(Some("Trixie"), TRUE, FALSE,
            Some(Url("file:///tmp/good.tar", Some("0xyz"))), None, <<>>) }

FlavorNames == <<"Ubuntu", "Debian", "Fedora", "Arch">>

\* the versions of the first n flavors of vs, counted together
RECURSIVE VersionsIn(_, _)
VersionsIn(vs, n) == IF n = 0 THEN 0 ELSE Len(vs[n]) + VersionsIn(vs, n - 1)

\* the manifests: at most MaxFlavors flavors, of at most MaxVersions versions in all
Manifests ==
    {[f \in 1..n |-> [flavor |-> FlavorNames[f], versions |-> vs[f]]] :
        n \in 0..MaxFlavors,
        vs \in {v \in [1..MaxFlavors -> SeqsUpTo(EntryPool, MaxVersions)] :
                   VersionsIn(v, MaxFlavors) <= MaxVersions}}

\* the manifest of the branch to compare with
Baseline ==
    <<[flavor |-> "Ubuntu",
       versions |-> <<Entry(Some("Ubuntu-24.04"), TRUE, TRUE,
                            Some(Url("file:///tmp/good.tar", Some(GoodSha))), None, <<>>),
                      Entry(Some("Noble"), TRUE, FALSE, None, None, <<>>)>>]>>

\* the command lines of the model
MainArgs ==
    [tar : {None}, manifest : {Some(m) : m \in Manifests}, baseline_manifest : {None, Some(Baseline)},
     arm64 : {FALSE}, debug : BOOLEAN]
    \cup [tar : {None}, manifest : {None}, baseline_manifest : {None}, arm64 : {FALSE},
          debug : BOOLEAN]
    \cup [tar : {Some(path) : path \in {"tmp/good.tar", "tmp/warn.tar", "tmp/bad.tar",
                                        "tmp/crash.tar", "tmp/missing.tar"}},
          manifest : {None}, baseline_manifest : {None}, arm64 : BOOLEAN, debug : BOOLEAN]

InitMain ==
    /\ prog = "main"
    /\ pc = "start"
    /\ tar = <<>>
    /\ args \in MainArgs
    /\ res = None
    /\ out = <<>> /\ hash = None /\ stream = <<>>
    /\ pos = [f |-> 1, v |-> 1, arch |-> "", url_found |-> FALSE]
    /\ exc = "none" /\ exit_status = None

\* an exception leaves the try block of main
Raise(name) == exc' = name /\ pc' = "except"

\* the entry the loops of lines 54 and 57 are at
Flavor == args.manifest[1][pos.f]

CurrentEntry == Flavor.versions[pos.v]

\* the url read_url was called with
CurrentUrl == IF pos.arch = "amd64" THEN CurrentEntry.Amd64Url[1] ELSE CurrentEntry.Arm64Url[1]

\* the whole text of what url names, once fetched
Body(url) ==
    IF StartsWith(url.Url, "file://")
    THEN Join(open(Remove(Remove(url.Url, "file:///"), "file://"))[1], "")
    ELSE Join(requests_get(url.Url).content, "")

\* lines 39-40: read_tar ended as r
Inspected(r, then) ==
    /\ out' = out \o r.out
    /\ IF r.exc /= "none" THEN Raise(r.exc) ELSE pc' = then /\ exc' = exc

\* lines 37-52: the tar mode in full, or the way to the loop over the manifest
MainStart ==
    /\ prog = "main" /\ pc = "start"
    /\ IF args.tar /= None
       THEN IF open(args.tar[1]) = None
            THEN Raise("FileNotFoundError") /\ out' = out
            ELSE Inspected(read_tar_file(Join(open(args.tar[1])[1], ""),
                               IF args.arm64 THEN ARM64_ELF_MAGIC ELSE X64_ELF_MAGIC),
                           "return")
       ELSE /\ out' = out
            /\ IF args.manifest = None THEN Raise("RuntimeError")
               ELSE /\ pc' = IF Len(args.manifest[1]) = 0 THEN "return" ELSE "entry"
                    /\ exc' = exc
    /\ UNCHANGED <<prog, tar, args, res, hash, stream, pos, exit_status>>

\* baseline_manifest.get(flavor, None) if baseline_manifest else None
baseline_flavor(flavor) ==
    IF args.baseline_manifest = None THEN None
    ELSE LET found == {i \in 1..Len(args.baseline_manifest[1]) :
                          args.baseline_manifest[1][i].flavor = flavor}
         IN IF found = {} THEN None
            ELSE Some(args.baseline_manifest[1][CHOOSE i \in found : TRUE].versions)

\* next((entry for entry in baseline_flavor if entry['Name'] == name), None)
RECURSIVE baseline_version(_, _)
baseline_version(entries, name) ==
    IF Len(entries) = 0 THEN None
    ELSE IF entries[1].Name = name THEN Some(entries[1])
    ELSE baseline_version(Tail(entries), name)

\* lines 57-80: an entry without a name or equal to the baseline's is passed over,
\* any other is looked at
EntryBegin ==
    /\ prog = "main" /\ pc = "entry" /\ pos.v <= Len(Flavor.versions)
    /\ LET e == CurrentEntry
           base == baseline_flavor(Flavor.flavor)
       IN IF e.Name = None
          THEN /\ out' = Append(out, error("Found nameless distribution", ""))
               /\ pos' = [pos EXCEPT !.v = @ + 1]
               /\ pc' = pc
          ELSE IF base /= None /\ baseline_version(base[1], e.Name) = Some(e)
          THEN /\ out' = out
               /\ pos' = [pos EXCEPT !.v = @ + 1]
               /\ pc' = pc
          ELSE /\ out' = out
                     \o (IF ~e.FriendlyName
                         THEN <<error("Manifest entry is missing a \"FriendlyName\" entry", "")>>
                         ELSE <<>>)
                     \o (IF StartsWith(e.Name[1], Flavor.flavor)
                         THEN <<error("Name should start with \"{flavor}\"", "")>>
                         ELSE <<>>)
               /\ pos' = [pos EXCEPT !.url_found = FALSE, !.arch = ""]
               /\ pc' = "amd64"
    /\ UNCHANGED <<prog, tar, args, res, hash, stream, exc, exit_status>>

\* lines 84 and 88: the entry has no url for the architecture
UrlAbsent ==
    /\ prog = "main" /\ pc \in {"amd64", "arm64"}
    /\ (IF pc = "amd64" THEN CurrentEntry.Amd64Url ELSE CurrentEntry.Arm64Url) = None
    /\ pc' = IF pc = "amd64" THEN "arm64" ELSE "keys"
    /\ UNCHANGED <<prog, tar, args, res, out, hash, stream, pos, exc, exit_status>>

\* lines 321-324 and 334-335: read_url is entered, with hash unbound, and opens the
\* file, after it bound hash to a new digest, or asks for the url
UrlBegin ==
    /\ prog = "main" /\ pc \in {"amd64", "arm64"}
    /\ (IF pc = "amd64" THEN CurrentEntry.Amd64Url ELSE CurrentEntry.Arm64Url) /= None
    /\ pos' = [pos EXCEPT !.arch = pc]
    /\ LET url == IF pc = "amd64" THEN CurrentEntry.Amd64Url[1] ELSE CurrentEntry.Arm64Url[1]
       IN IF StartsWith(url.Url, "file://")
          THEN /\ hash' = Some("")
               /\ LET fd == open(Remove(Remove(url.Url, "file:///"), "file://"))
                  IN IF fd = None THEN Raise("FileNotFoundError") /\ stream' = stream
                     ELSE stream' = fd[1] /\ pc' = "read" /\ exc' = exc
          ELSE /\ hash' = None
               /\ LET response == requests_get(url.Url)
                  IN IF response.status_code /= 200 THEN Raise("HTTPError") /\ stream' = stream
                     ELSE stream' = response.content /\ pc' = "read" /\ exc' = exc
    /\ UNCHANGED <<prog, tar, args, res, out, exit_status>>

\* lines 325-330 and 339-341: the next chunk is fed to hash
UrlChunk ==
    /\ prog = "main" /\ pc = "read" /\ stream /= <<>>
    /\ IF hash = None THEN Raise("UnboundLocalError") /\ UNCHANGED <<hash, stream>>
       ELSE /\ hash' = Some(hash[1] \o Head(stream))
            /\ stream' = Tail(stream)
            /\ pc' = pc /\ exc' = exc
    /\ UNCHANGED <<prog, tar, args, res, out, pos, exit_status>>

\* lines 332-333 and 343-344: no chunk is left, read_tar looks at the whole file
UrlInspect ==
    /\ prog = "main" /\ pc = "read" /\ stream = <<>>
    /\ Inspected(read_tar_file(Body(CurrentUrl),
                     IF pos.arch = "amd64" THEN X64_ELF_MAGIC ELSE ARM64_ELF_MAGIC),
                 "compare")
    /\ UNCHANGED <<prog, tar, args, res, hash, stream, pos, exit_status>>

\* lines 347-358: the digest is compared with the manifest's, and read_url returns
UrlCompare ==
    /\ prog = "main" /\ pc = "compare"
    /\ LET url == CurrentUrl
           expected_sha == IF url.Sha256 /= None /\ StartsWith(url.Sha256[1], "0x")
                           THEN SliceFrom(url.Sha256[1], 2) ELSE url.Sha256[1]
           returns == /\ pc' = IF pos.arch = "amd64" THEN "arm64" ELSE "keys"
                      /\ pos' = [pos EXCEPT !.url_found = TRUE]
                      /\ exc' = exc
       IN IF url.Sha256 = None
          THEN out' = Append(out, error("URL is missing \"Sha256\"", "")) /\ returns
          ELSE IF hash = None THEN Raise("UnboundLocalError") /\ UNCHANGED <<out, pos>>
          ELSE IF fromhex(expected_sha) = None THEN Raise("ValueError") /\ UNCHANGED <<out, pos>>
          ELSE IF fromhex(expected_sha) /= Some(hexdigest(hash[1]))
          THEN out' = Append(out, error("Sha256 does not match", url.Url)) /\ returns
          ELSE out' = out /\ returns
    /\ UNCHANGED <<prog, tar, args, res, hash, stream, exit_status>>

\* one error for each key of keys
unexpected_keys(keys) == [i \in 1..Len(keys) |-> error("Unexpected key: \"{key}\"", "")]

\* lines 92-98: the end of the loop's body
EntryEnd ==
    /\ prog = "main" /\ pc = "keys"
    /\ out' = out \o (IF ~pos.url_found THEN <<error("No URL found", "")>> ELSE <<>>)
                  \o unexpected_keys(CurrentEntry.extra)
    /\ pos' = [pos EXCEPT !.v = @ + 1]
    /\ pc' = "entry"
    /\ UNCHANGED <<prog, tar, args, res, hash, stream, exc, exit_status>>

\* sum(1 for e in versions if e.get('Default', False))
default_entries(versions) == Cardinality({i \in 1..Len(versions) : versions[i].Default})

\* lines 101-103: the versions of the flavor are through
FlavorEnd ==
    /\ prog = "main" /\ pc = "entry" /\ pos.v > Len(Flavor.versions)
    /\ out' = out \o (IF default_entries(Flavor.versions) = 0
                      THEN <<error("Found no default distribution", "")>>
                      ELSE IF default_entries(Flavor.versions) /= 1
                      THEN <<error("Found multiple default distributions", "")>>
                      ELSE <<>>)
    /\ pos' = [pos EXCEPT !.f = @ + 1, !.v = 1]
    /\ pc' = IF pos.f = Len(args.manifest[1]) THEN "return" ELSE "entry"
    /\ UNCHANGED <<prog, tar, args, res, hash, stream, exc, exit_status>>

\* main returns: click ends the process with status 0
Return ==
    /\ prog = "main" /\ pc = "return"
    /\ exit_status' = 0
    /\ pc' = "exited"
    /\ UNCHANGED <<prog, tar, args, res, out, hash, stream, pos, exc>>

\* lines 104-111: with --debug the exception ends in the debugger and main returns,
\* without it the exception is raised again and ends the process with status 1
Except ==
    /\ prog = "main" /\ pc = "except"
    /\ exit_status' = IF args.debug THEN 0 ELSE 1
    /\ pc' = "exited"
    /\ UNCHANGED <<prog, tar, args, res, out, hash, stream, pos, exc>>

NextMain ==
    \/ MainStart \/ EntryBegin \/ UrlAbsent \/ UrlBegin \/ UrlChunk \/ UrlInspect
    \/ UrlCompare \/ EntryEnd \/ FlavorEnd \/ Return \/ Except

SpecMain == InitMain /\ [][NextMain]_vars

(***************************************************************************)
(* The claims.                                                             *)
(***************************************************************************)

\* the severities and messages of findings, without the names they quote
Kinds(findings) == [i \in 1..Len(findings) |-> <<findings[i].sev, findings[i].kind>>]

\* how many elements of the sequence findings have the message kind
CountKind(findings, kind) == Cardinality({i \in 1..Len(findings) : findings[i].kind = kind})

\* C10's notion of a malformed passwd line
Malformed(line) == Len(Split(line, ":")) /= 7 \/ ~IsInt(Split(line, ":")[3])

\* the positions of the well-formed lines whose uid an earlier well-formed line has
RepeatedUids(lines) ==
    {i \in 1..Len(lines) :
        /\ ~Malformed(lines[i])
        /\ \E j \in 1..(i - 1) :
              ~Malformed(lines[j]) /\ Int_(Split(lines[j], ":")[3]) = Int_(Split(lines[i], ":")[3])}

\* C10: in read_passwd every malformed line (not 7 fields, or a third field that is
\* no integer) gives exactly one 'invalid entry' error and adds nothing to the entry
\* map, and a duplicate-uid error is printed only for a well-formed line whose uid an
\* earlier well-formed line recorded.
C10_MalformedLinesSkipped ==
    (prog = "read_passwd" /\ pc = "done") =>
        /\ CountKind(res.out, "Invalid passwd entry")
              = Cardinality({i \in 1..Len(args.lines) : Malformed(args.lines[i])})
        /\ res.entries = {Some(Int_(Split(args.lines[i], ":")[3])) :
                             i \in {j \in 1..Len(args.lines) : ~Malformed(args.lines[j])}}
        /\ CountKind(res.out, "found duplicated uid in /etc/passw")
              = Cardinality(RepeatedUids(args.lines))

\* 'section.key' as the file writes it
Written(items) == [i \in 1..Len(items) |-> items[i].section \o "." \o items[i].key]

\* C6: validate_config on a file whose keys are all in the allow-list prints no
\* finding and returns a mapping whose keys are exactly the keys written in the file;
\* with keys outside the allow-list it prints exactly one error, which lists exactly
\* those keys.
C6_AllowListedKeysAccepted ==
    (prog = "validate_config" /\ pc = "done" /\ Len(tar) = 1 /\ tar[1].type = "reg") =>
        LET written == Written(args.items)
            outside == NotIn(written, args.valid_keys)
        IN /\ res.exc = "none"
           /\ res.ret /= None
           /\ Range(DictKeys(res.ret[1])) = Range(written)
           /\ IF outside = <<>> THEN res.out = <<>>
              ELSE res.out = <<error("Found unexpected_keys", PyList(outside))>>

\* C3: validate_mode with follow_symlink=true terminates on every archive, also on
\* one whose symlinks form a cycle: the recursion stays within a hop limit and the
\* call returns.
C3_FollowSymlinkTerminates ==
    (prog = "validate_mode" /\ pc = "done" /\ args.follow_symlink) =>
        \A enc \in Encodings : res[enc].exc /= "RecursionError"

\* C4: for two archives that hold the same members, one under the bare slash and
\* one under the rooted prefix, validate_mode returns the same found/not-found result
\* and prints findings of the same severities, also when the path is absent and the
\* lookup goes through a parent directory that is a symlink.
C4_EncodingIndependent ==
    (prog = "validate_mode" /\ pc = "done") =>
        /\ res["/"].exc = res["./"].exc
        /\ res["/"].ret = res["./"].ret
        /\ [i \in 1..Len(res["/"].out) |-> res["/"].out[i].sev]
              = [i \in 1..Len(res["./"].out) |-> res["./"].out[i].sev]

\* the position in members of the member with the logical name name, 0 if none
MemberAt(members, name) == LastNamed(members, name, Len(members))

\* the logical name a symlink points to: an absolute target from the archive root, a
\* relative one from the directory that holds the link
LinkTargetName(member) ==
    IF StartsWith(member.linkname, "/") THEN SliceFrom(Normpath(member.linkname), 1)
    ELSE Normpath(Dirname(member.name) \o "/" \o member.linkname)

\* the position of the member a chain of symlinks from position i ends at, 0 if the
\* chain dangles or does not end within fuel hops
RECURSIVE FinalTarget(_, _, _)
FinalTarget(members, i, fuel) ==
    IF i = 0 \/ fuel = 0 THEN 0
    ELSE IF members[i].type /= "sym" THEN i
    ELSE FinalTarget(members, MemberAt(members, LinkTargetName(members[i])), fuel - 1)

\* C5: with follow_symlink=true on a path whose member is a symlink, or a chain of
\* symlinks without a cycle, that ends at a member that is no symlink, the mode, uid,
\* gid and size compared with the rule are those of that final member: an absolute
\* target is resolved from the archive root, a relative one from the directory of
\* the link.
C5_FinalTargetValidated ==
    (prog = "validate_mode" /\ pc = "done" /\ args.follow_symlink) =>
        LET i == MemberAt(tar, SliceFrom(args.path, 1))
            t == FinalTarget(tar, i, Len(tar) + 1)
        IN (i /= 0 /\ tar[i].type = "sym" /\ t /= 0) =>
              \A enc \in Encodings :
                 /\ res[enc].exc = "none"
                 /\ res[enc].ret = TRUE
                 /\ Kinds(res[enc].out)
                       = Kinds(validate_found(tar, t, tar[t].name, ShellRule(args.optional)).out)

\* whether some member of the archive sets boot.systemd to true
SystemdSetTrue ==
    \E i \in 1..Len(tar) : \E j \in 1..Len(tar[i].lines) : tar[i].lines[j] = "systemd = true"

\* the findings that name /sbin/init
AboutInit(findings) ==
    {i \in 1..Len(findings) : findings[i].about \in {"/sbin/init", "./sbin/init"}}

\* C8: read_tar checks /sbin/init only if /etc/wsl.conf exists and enables
\* boot.systemd: with the file absent, the key absent or the key set to a disabled
\* value (false), no finding names /sbin/init.
C8_InitCheckedOnlyIfSystemd ==
    (prog = "read_tar" /\ pc = "done" /\ ~SystemdSetTrue) => AboutInit(res.out) = {}

\* C9: read_tar reports every problem as a finding and never raises: whatever the
\* archive holds, it runs all its checks and returns.
C9_ReadTarNeverRaises ==
    (prog = "read_tar" /\ pc = "done") => res.exc = "none"
\* the `*.target.wants` directories under a search root that are members themselves
ListedWants(members) ==
    {members[i].name : i \in {j \in 1..Len(members) :
        /\ EndsWith(members[j].name, ".target.wants")
        /\ \E c \in 1..Len(config_dirs) : "/" \o Dirname(members[j].name) = config_dirs[c]}}

\* every `*.target.wants` directory under a search root that holds some member
HoldingWants(members) ==
    {Dirname(members[i].name) : i \in {j \in 1..Len(members) :
        /\ EndsWith(Dirname(members[j].name), ".target.wants")
        /\ \E c \in 1..Len(config_dirs) :
              "/" \o Dirname(Dirname(members[j].name)) = config_dirs[c]}}

\* whether the member the archive holds under name is a symlink to /dev/null
Masked(members, name) ==
    /\ MemberAt(members, name) /= 0
    /\ members[MemberAt(members, name)].type = "sym"
    /\ members[MemberAt(members, name)].linkname = "/dev/null"

\* whether the member the archive holds under name is a symlink to a member
LinksToUnit(members, name) ==
    /\ MemberAt(members, name) /= 0
    /\ members[MemberAt(members, name)].type = "sym"
    /\ ~Masked(members, name)
    /\ FinalTarget(members, MemberAt(members, name), 2) /= 0

\* the file names of the members of the directories in dirs
UnitNames(members, dirs) ==
    {Basename(members[i].name) : i \in {j \in 1..Len(members) : Dirname(members[j].name) \in dirs}}

\* C7 as stated: a unit name whose member in a `*.target.wants` directory under a
\* search root is a symlink to /dev/null is no key of the result of
\* read_systemd_enabled_units, and a member that is a symlink to a real unit file is
\* a key of it, under its file name.
C7_MaskedExcludedRealIncluded ==
    (prog = "read_systemd_enabled_units" /\ pc = "done" /\ res.exc = "none") =>
        \A W \in HoldingWants(tar) : \A u \in UnitNames(tar, {W}) :
           /\ Masked(tar, W \o "/" \o u) => ~DictHas(res.ret, u)
           /\ LinksToUnit(tar, W \o "/" \o u) => DictHas(res.ret, u)

\* C7, amended: a member of a `*.target.wants` directory that is a symlink to
\* /dev/null adds no key, so that its name is a key of the result only if the member
\* of that name in another `*.target.wants` directory is no symlink to /dev/null; and
\* a member that is a symlink to a real unit file is a key, under its file name, if
\* its `*.target.wants` directory is a member of the archive itself.
C7_MaskedAddsNothing ==
    (prog = "read_systemd_enabled_units" /\ pc = "done" /\ res.exc = "none") =>
        \A W \in HoldingWants(tar) : \A u \in UnitNames(tar, {W}) :
           /\ (Masked(tar, W \o "/" \o u) /\ DictHas(res.ret, u)) =>
                 \E V \in HoldingWants(tar) \ {W} :
                    MemberAt(tar, V \o "/" \o u) /= 0 /\ ~Masked(tar, V \o "/" \o u)
           /\ (LinksToUnit(tar, W \o "/" \o u) /\ W \in ListedWants(tar)) =>
                 DictHas(res.ret, u)

\* a unit masked in one listed directory and linked to its file in another is a key
C7_MaskedAndLinked ==
    /\ prog = "read_systemd_enabled_units" /\ pc = "done"
    /\ {WantsEtc, WantsLib} \subseteq ListedWants(tar)
    /\ Masked(tar, WantsEtc \o "/foo.service")
    /\ LinksToUnit(tar, WantsLib \o "/foo.service")
    /\ res.exc = "none"
    /\ DictHas(res.ret, "foo.service")

\* C1: once a run of main over a manifest or a tar is through, the process signals
\* failure (a status other than 0) if and only if some finding printed in the run is
\* an error: a run with warnings only, or with no finding, signals success, and a run
\* with an error never does.
C1_FailureIffErrorFinding ==
    (prog = "main" /\ pc = "exited" /\ exc = "none") =>
        (exit_status /= 0 <=> Errors(out) /= {})

\* C2: read_url gives every fetch, of a local file and of a remote url alike, a
\* digest of its own before the first chunk is read: while the chunks are read, hash
\* is bound and holds exactly the chunks of this fetch read so far, so that no fetch
\* ends in a chunk fed to an unbound name.
C2_FreshDigestPerFetch ==
    (prog = "main") =>
        /\ pc = "read" => (hash /= None /\ hash[1] \o Join(stream, "") = Body(CurrentUrl))
        /\ exc /= "UnboundLocalError"
====
